---- MODULE Spec2Model ----
(***************************************************************************)
(* A model of the Vivado TCL session manager (src/vivado_session.py) and   *)
(* of the part of the tool dispatcher (src/server.py) that drives it.      *)
(*                                                                         *)
(* The session object, the pexpect channel to the spawned child and the    *)
(* child itself are the state.  Every method of VivadoSession is a         *)
(* sequence of atomic steps of the calling thread, one per blocking        *)
(* pexpect operation; the child and the passing of time are the            *)
(* environment.                                                            *)
(***************************************************************************)
EXTENDS Integers, Sequences, FiniteSets, TLC

(***************************************************************************)
(* Bounds of the model.                                                    *)
(***************************************************************************)
MaxCmds == 2
MaxSpawns == 1
HistCmds == 102
HistTimeouts == 1
MaxLines == 6
MaxRespawns == 2
MaxInstances == 2
MaxPending == 2
MaxRecoverCmds == 1
MaxStatCmds == 3
MaxRawLines == 4

Threads == {"t1", "t2"}
Commands == {"report_x", "bogus"}
Projects == {"a.xpr"}
ElapsedMs == {1, 2}

(***************************************************************************)
(* Program constants.                                                      *)
(***************************************************************************)
HISTORY_MAX == 100
TCL_WINDOW == 5

None == "None"
NoThread == "NoThread"

VARIABLES
    is_running,       \* VivadoSession.is_running
    child,            \* VivadoSession.child: 0 is None, else the spawn's number
    current_project,  \* VivadoSession.current_project
    lock,             \* VivadoSession._lock: the holder, or NoThread
    stats,            \* VivadoSession.stats
    alive,            \* the spawned processes that have not exited
    pty,              \* the pexpect channel of the spawn `child` refers to
    pc,               \* where each thread is inside the method it runs
    call,             \* the locals of the method each thread runs
    last,             \* the method that returned last, and what it returned
    nspawn,           \* pexpect.spawn calls that created a process
    ncmds,            \* run_tcl calls that found the session running
    now,              \* datetime.now(), as a logical clock
    executed,         \* history entries in the order they were counted
    wlog,             \* run_tcl calls in the order their command was written
    lockOrder,        \* run_tcl calls in the order they acquired the lock
    text,             \* the output handed to classify_output_errors
    classification,   \* the ErrorClassification it returned
    framed,           \* what the framing loop of run_tcl made of a text
    session,          \* the module's _session: 0 is None, else the instance
    ninst,            \* VivadoSession objects created by get_session
    hlog,             \* the methods the last ensure_healthy has called
    spawnLimit,       \* processes the host lets pexpect.spawn create
    held              \* the dictionary of get_stats a caller has kept

sessionVars == <<is_running, child, current_project, lock, stats>>
procVars == <<alive, pty>>
threadVars == <<pc, call, last>>
logVars == <<nspawn, ncmds, executed, wlog, lockOrder>>
classVars == <<text, classification, framed>>
moduleVars == <<session, ninst>>
extVars == <<classVars, moduleVars, hlog, spawnLimit, held>>
vars == <<is_running, child, current_project, lock, stats, alive, pty,
          pc, call, last, nspawn, ncmds, now, executed, wlog, lockOrder,
          text, classification, framed, session, ninst, hlog, spawnLimit,
          held>>

(***************************************************************************)
(* Text.  The channel carries lines and prompts; a line is known by its    *)
(* kind, by the write that made the child produce it and by the command    *)
(* text it holds.                                                          *)
(*   banner  the line holding "Start of session"                           *)
(*   prompt  the text "Vivado%"                                            *)
(*   echo    the terminal's echo of a written command                      *)
(*   out     an ordinary output line                                       *)
(*   err     a line starting with "ERROR: ["                               *)
(*   tclerr  a line starting with "invalid command name"                   *)
(*   health  the line "HEALTH_OK"                                          *)
(***************************************************************************)
Line(k, id, cmd) == [k |-> k, id |-> id, cmd |-> cmd]
Prompt == Line("prompt", 0, "")
Banner == Line("banner", 0, "")
BootItem == [cmd |-> "<boot>", id |-> 0]

\* The index of the first TRUE of a sequence of flags from i on, 0 when
\* there is none.
RECURSIVE FirstIdx(_, _)
FirstIdx(flags, i) ==
    IF i > Len(flags) THEN 0
    ELSE IF flags[i] THEN i
    ELSE FirstIdx(flags, i + 1)

\* The patterns of expect: 'Vivado%', 'Start of session' and 'HEALTH_OK'.
IsPrompt == "prompt"
IsBanner == "banner"
IsHealthOk == "health"

\* The command of is_healthy.
HealthCmd == "puts {HEALTH_OK}"

\* The pattern is found in the line: 'HEALTH_OK' is in the line the child
\* prints for HealthCmd and in the echo of HealthCmd.
Found(pattern, l) ==
    \/ l.k = pattern
    \/ pattern = IsHealthOk /\ l.k = "echo" /\ l.cmd = HealthCmd

(***************************************************************************)
(* classify_output_errors and ErrorClassification.is_actual_failure.       *)
(* A text is a sequence of lines (the text split at its newlines) and a    *)
(* line a sequence of tokens: " " stands for a run of whitespace, the      *)
(* other tokens for the pieces of text the patterns look for.              *)
(***************************************************************************)
Blank == " "

\* tcl_error_patterns, lower case.
TclPatterns == {"invalid command name", "wrong # args:"}

\* The flag re.IGNORECASE: matching goes by the lower-case form.
Lower(tok) ==
    CASE tok = "Invalid Command Name" -> "invalid command name"
      [] OTHER -> tok

ReportIndicators == {"+---------", "WNS(ns)", "Utilization"}

\* str.strip() of a line.
RECURSIVE LStrip(_)
LStrip(line) ==
    IF line # <<>> /\ Head(line) = Blank THEN LStrip(Tail(line)) ELSE line

RECURSIVE RStrip(_)
RStrip(line) ==
    IF line # <<>> /\ line[Len(line)] = Blank
    THEN RStrip(SubSeq(line, 1, Len(line) - 1))
    ELSE line

Strip(line) == RStrip(LStrip(line))

\* output.strip().split('\n'): whitespace at both ends of the text goes,
\* the newlines of empty and blank lines included; what is left is split,
\* and the empty text splits into one empty line.
RECURSIVE DropBlankHead(_)
DropBlankHead(t) ==
    IF t # <<>> /\ Strip(Head(t)) = <<>> THEN DropBlankHead(Tail(t)) ELSE t

RECURSIVE DropBlankTail(_)
DropBlankTail(t) ==
    IF t # <<>> /\ Strip(t[Len(t)]) = <<>>
    THEN DropBlankTail(SubSeq(t, 1, Len(t) - 1))
    ELSE t

SplitLines(t) ==
    LET kept == DropBlankTail(DropBlankHead(t))
    IN  IF kept = <<>> THEN << <<>> >>
        ELSE [i \in 1..Len(kept) |->
                IF i = 1 /\ i = Len(kept) THEN Strip(kept[i])
                ELSE IF i = 1 THEN LStrip(kept[i])
                ELSE IF i = Len(kept) THEN RStrip(kept[i])
                ELSE kept[i]]

\* re.match(pattern, stripped, re.IGNORECASE) for a pattern of
\* tcl_error_patterns.
MatchTcl(stripped) ==
    stripped # <<>> /\ Lower(stripped[1]) \in TclPatterns

\* A variant of MatchVivado that looks for "ERROR:" anywhere in the line.
MatchErrorAnywhere(stripped) ==
    \E i \in 1..Len(stripped) : stripped[i] = "ERROR:"

\* re.match(r'^ERROR:\s*\[', stripped)
MatchVivado(stripped) ==
    /\ Len(stripped) >= 2
    /\ stripped[1] = "ERROR:"
    /\ LStrip(Tail(stripped)) # <<>>
    /\ Head(LStrip(Tail(stripped))) = "["

\* A variant of TclErrorIn that looks at every line.
TclErrorAnywhere(lines) ==
    \E i \in 1..Len(lines) : MatchTcl(Strip(lines[i]))

\* for line in lines[:5]: ...
TclErrorIn(lines) ==
    \E i \in 1..Len(lines) : i <= TCL_WINDOW /\ MatchTcl(Strip(lines[i]))

\* for line in lines: ...
VivadoErrorIn(lines) ==
    \E i \in 1..Len(lines) : MatchVivado(Strip(lines[i]))

\* any(ind in output for ind in report_indicators)
ReportContentIn(t) ==
    \E i \in 1..Len(t) : \E j \in 1..Len(t[i]) : t[i][j] \in ReportIndicators

\* A variant of ActualFailure that lets report content excuse an error.
FailureUnlessReport(c) ==
    (c.is_tcl_error \/ c.is_vivado_error) /\ ~c.is_report_content

\* ErrorClassification.is_actual_failure
ActualFailure(c) == c.is_tcl_error \/ c.is_vivado_error

\* A variant of classify_output_errors that takes the empty text for an
\* error.
ClassifyEmptyFails(t) ==
    LET flags == [done |-> TRUE,
                  is_tcl_error |-> \/ TclErrorIn(SplitLines(t))
                                   \/ SplitLines(t) = << <<>> >>,
                  is_vivado_error |-> VivadoErrorIn(SplitLines(t)),
                  is_report_content |-> ReportContentIn(t),
                  is_actual_failure |-> FALSE]
    IN  [flags EXCEPT !.is_actual_failure = ActualFailure(flags)]

classify_output_errors(t) ==
    LET flags == [done |-> TRUE,
                  is_tcl_error |-> TclErrorIn(SplitLines(t)),
                  is_vivado_error |-> VivadoErrorIn(SplitLines(t)),
                  is_report_content |-> ReportContentIn(t),
                  is_actual_failure |-> FALSE]
    IN  [flags EXCEPT !.is_actual_failure = ActualFailure(flags)]

\* The text of a line of the channel.
LineText(l) ==
    CASE l.k = "err" -> <<"ERROR:", Blank, "[", "x">>
      [] l.k = "tclerr" -> <<"invalid command name", Blank, "x">>
      [] l.k = "echo" -> <<l.cmd>>
      [] l.k = "prompt" -> <<"Vivado%">>
      [] l.k = "banner" -> <<"Start of session">>
      [] OTHER -> <<"x">>

\* '\n'.join(clean_lines)
JoinLines(lines) == [i \in 1..Len(lines) |-> LineText(lines[i])]

is_tcl_error(lines) == classify_output_errors(JoinLines(lines)).is_tcl_error

is_vivado_error(lines) ==
    classify_output_errors(JoinLines(lines)).is_vivado_error

is_actual_failure(lines) ==
    classify_output_errors(JoinLines(lines)).is_actual_failure

(***************************************************************************)
(* The framing loop of run_tcl: drop every line up to and including the    *)
(* first one that contains the command text, then keep what is neither a   *)
(* prompt nor empty.                                                       *)
(***************************************************************************)
ContainsCmd(l, cmd) == l.k = "echo" /\ l.cmd = cmd

KeepLine(l) == l.k # "prompt"

Frame(lines, cmd) ==
    LET i == FirstIdx([j \in 1..Len(lines) |-> ContainsCmd(lines[j], cmd)],
                      1)
    IN  IF i = 0 THEN <<>>
        ELSE SelectSeq(SubSeq(lines, i + 1, Len(lines)), KeepLine)

(***************************************************************************)
(* The same statements on text: the captured text is a sequence of lines   *)
(* (the text split at its newlines) and a line and a command are sequences *)
(* of tokens, with " " for a run of blanks and "\r" for a carriage return. *)
(***************************************************************************)
CR == "\r"

PromptMarker == "Vivado%"

\* raw_output.replace('\r', '').split('\n')
NotCR(tok) == tok # CR

SplitRaw(raw) == [i \in 1..Len(raw) |-> SelectSeq(raw[i], NotCR)]

\* cmd_normalized in stripped
IsIn(cmd, line) ==
    \E k \in 0..(Len(line) - Len(cmd)) :
       SubSeq(line, k + 1, k + Len(cmd)) = cmd

\* stripped == 'Vivado%' or stripped.startswith('Vivado%')
IsPromptLine(stripped) ==
    \/ stripped = <<PromptMarker>>
    \/ stripped # <<>> /\ Head(stripped) = PromptMarker

\* A variant of the loop's turn that treats the line holding the command as
\* it treats the lines after it.
KeepEchoLine(stripped, cmd_normalized, loop) ==
    IF ~loop.found_command /\ ~IsIn(cmd_normalized, stripped)
    THEN loop
    ELSE IF IsPromptLine(stripped) \/ stripped = <<>>
    THEN [loop EXCEPT !.found_command = TRUE]
    ELSE [found_command |-> TRUE,
          clean_lines |-> Append(loop.clean_lines, stripped)]

\* One turn of the loop over the lines.
FrameLine(stripped, cmd_normalized, loop) ==
    IF ~loop.found_command
    THEN [loop EXCEPT !.found_command = IsIn(cmd_normalized, stripped)]
    ELSE IF IsPromptLine(stripped) THEN loop
    ELSE IF stripped = <<>> THEN loop
    ELSE [loop EXCEPT !.clean_lines = Append(@, stripped)]

RECURSIVE FrameLoop(_, _, _)
FrameLoop(lines, cmd_normalized, loop) ==
    IF lines = <<>> THEN loop.clean_lines
    ELSE FrameLoop(Tail(lines), cmd_normalized,
                   FrameLine(Strip(Head(lines)), cmd_normalized, loop))

\* '\n'.join(clean_lines).strip()
StripJoined(t) ==
    LET kept == DropBlankTail(DropBlankHead(t))
    IN  [i \in 1..Len(kept) |->
            IF i = 1 /\ i = Len(kept) THEN Strip(kept[i])
            ELSE IF i = 1 THEN LStrip(kept[i])
            ELSE IF i = Len(kept) THEN RStrip(kept[i])
            ELSE kept[i]]

FrameText(raw, command) ==
    StripJoined(FrameLoop(SplitRaw(raw), Strip(command),
                          [found_command |-> FALSE, clean_lines |-> <<>>]))

(***************************************************************************)
(* CommandResult.  The output is a message of the session or the framed    *)
(* lines of the child.                                                     *)
(***************************************************************************)
CommandResult(command, msg, lines, return_value, success, elapsed) ==
    [command |-> command, msg |-> msg, lines |-> lines,
     return_value |-> return_value, success |-> success,
     elapsed_ms |-> elapsed, timestamp |-> now]

\* self.timeout, in seconds.
self_timeout == 300

\* f"Command timed out after {seconds}s"
TimeoutText(seconds) == "Command timed out after " \o ToString(seconds) \o "s"

MsgAlreadyRunning == "Session already running"
MsgStarted == "Vivado session started successfully"
MsgStartTimeout == "Failed to start Vivado: Timeout waiting for startup"
MsgStartError == "Failed to start Vivado: <exception>"
MsgNotRunning == "Vivado session not running. Call start() first."
MsgTimeout == TimeoutText(self_timeout)
MsgError == "Error executing command: <exception>"
MsgStopNotRunning == "Session not running"
MsgStopped == "Vivado session stopped"
MsgHealthy == "Session healthy"
MsgToolNotRunning == "Vivado session not running. Call start_session first."

NoResult == [command |-> None, msg |-> None, lines |-> <<>>,
             return_value |-> None, success |-> FALSE,
             elapsed_ms |-> 0, timestamp |-> 0]

\* The dictionary get_stats returns.  The average is the quotient
\* avg_num / avg_den, kept exact.  dict.copy() is shallow: command_history
\* is the list object of the session's stats, and `live` says that the
\* session's stats still refer to that object.
NoSnapshot == [valid |-> FALSE, is_running |-> FALSE,
               current_project |-> None, session_start |-> 0,
               commands_run |-> 0, total_command_time_ms |-> 0,
               errors |-> 0, command_history |-> <<>>, live |-> FALSE,
               has_avg |-> FALSE, avg_num |-> 0, avg_den |-> 1]

\* timeout_override is <<>> for None and <<seconds>> for a number.
NoOverride == <<>>

NoCall == [op |-> "none", n |-> 0, cmd |-> "", ret |-> "idle",
           path |-> None, res |-> NoResult, snap |-> NoSnapshot,
           timeout_override |-> NoOverride]

\* A return: the number of the run_tcl call that returns (0 for the other
\* methods), and the CommandResult or the dictionary returned.
Returned(n, res, snap) == [n |-> n, res |-> res, snap |-> snap]

NoReturn == Returned(0, NoResult, NoSnapshot)

\* session_start 0 is None.
InitStats == [session_start |-> 0, commands_run |-> 0,
              total_command_time_ms |-> 0, errors |-> 0,
              command_history |-> <<>>]

NoPty == [closed |-> FALSE, echo |-> FALSE, inq |-> <<>>, out |-> <<>>,
          buf |-> <<>>]

(***************************************************************************)
(* VivadoSession.__init__ and the module's _session.                       *)
(***************************************************************************)
\* No text has been classified yet.
NoClassification == [done |-> FALSE, is_tcl_error |-> FALSE,
                     is_vivado_error |-> FALSE, is_report_content |-> FALSE,
                     is_actual_failure |-> FALSE]

\* No text has been framed yet.
NotFramed == [done |-> FALSE, command |-> <<>>, output |-> <<>>]

Constructed ==
    /\ is_running = FALSE
    /\ child = 0
    /\ current_project = None
    /\ lock = NoThread
    /\ stats = InitStats
    /\ alive = {}
    /\ pty = NoPty
    /\ pc = [t \in Threads |-> "idle"]
    /\ call = [t \in Threads |-> NoCall]
    /\ last = NoReturn
    /\ nspawn = 0
    /\ ncmds = 0
    /\ now = 1
    /\ executed = <<>>
    /\ wlog = <<>>
    /\ lockOrder = <<>>
    /\ text = <<>>
    /\ classification = NoClassification
    /\ framed = NotFramed
    /\ session = 0
    /\ ninst = 0
    /\ hlog = <<>>
    /\ held = NoSnapshot

Init == Constructed /\ spawnLimit = MaxSpawns

(***************************************************************************)
(* pexpect.                                                                *)
(***************************************************************************)
ChildAlive == child \in alive

\* What expect() can look at: its own buffer, then what the child has
\* written and nobody has read.  A closed spawn has no descriptor to read.
Avail == IF pty.closed THEN pty.buf ELSE pty.buf \o pty.out

\* spawn.sendline(cmd): "ok" the line reaches the child, "lost" the write
\* returns and the child is gone, "oserror" the write raises OSError.
SendOutcomes ==
    IF pty.closed THEN {"oserror"}
    ELSE IF ~ChildAlive THEN {"lost", "oserror"}
    ELSE {"ok"}

PtyAfterSend(cmd, id) ==
    [pty EXCEPT !.inq = Append(@, [cmd |-> cmd, id |-> id]),
                !.out = IF pty.echo /\ cmd # ""
                        THEN Append(@, Line("echo", id, cmd))
                        ELSE @]

\* spawn.read_nonblocking(size=100000, timeout=...): what is unread is
\* returned and dropped; pexpect's own buffer is not touched.
PtyAfterDrain == [pty EXCEPT !.out = <<>>]

\* spawn.expect(pattern): "match", "TIMEOUT", "EOF" or "ValueError".
MatchAt(pattern) ==
    FirstIdx([j \in 1..Len(Avail) |-> Found(pattern, Avail[j])], 1)

ExpectOutcomes(pattern) ==
    IF MatchAt(pattern) # 0 THEN {"match"}
    ELSE IF pty.closed THEN {"ValueError"}
    ELSE IF ChildAlive THEN {"TIMEOUT"}
    ELSE {"EOF"}

Before(pattern) == SubSeq(Avail, 1, MatchAt(pattern) - 1)

PtyAfterExpect(pattern, outcome) ==
    CASE outcome = "match" ->
            [pty EXCEPT !.buf = SubSeq(Avail, MatchAt(pattern) + 1,
                                       Len(Avail)),
                        !.out = <<>>]
      [] outcome = "TIMEOUT" -> [pty EXCEPT !.buf = Avail, !.out = <<>>]
      [] outcome = "EOF" -> [pty EXCEPT !.buf = <<>>, !.out = <<>>]
      [] OTHER -> pty

\* spawn.close(force=True): the descriptor is closed, the child is killed.
PtyAfterClose == [pty EXCEPT !.closed = TRUE, !.inq = <<>>, !.out = <<>>]

(***************************************************************************)
(* The child: Vivado in TCL mode.  It answers the lines it was sent in     *)
(* order, each with its output and then a prompt.                          *)
(***************************************************************************)
Responses(item) ==
    CASE item.cmd = "<boot>" -> {<<Banner>>}
      [] item.cmd = "" -> {<<Prompt>>}
      [] item.cmd = "report_x" ->
            {<<Line("out", item.id, item.cmd), Prompt>>}
      [] item.cmd = "bogus" ->
            {<<Line("err", item.id, item.cmd), Prompt>>}
      [] item.cmd = HealthCmd ->
            {<<Line("health", item.id, item.cmd), Prompt>>}
      [] item.cmd = "open_project" ->
            {<<Line("out", item.id, item.cmd), Prompt>>,
             <<Line("err", item.id, item.cmd), Prompt>>}
      [] OTHER -> {<<Prompt>>}

ChildRespond ==
    /\ ChildAlive
    /\ ~pty.closed
    /\ pty.inq # <<>>
    /\ LET item == Head(pty.inq)
       IN  IF item.cmd = "exit"
           THEN /\ alive' = alive \ {child}
                /\ pty' = [pty EXCEPT !.inq = <<>>]
           ELSE /\ \E r \in Responses(item) :
                      pty' = [pty EXCEPT !.inq = Tail(@), !.out = @ \o r]
                /\ UNCHANGED alive
    /\ UNCHANGED <<sessionVars, threadVars, logVars, now>>
    /\ UNCHANGED extVars

ChildDie ==
    /\ ChildAlive
    /\ ~pty.closed
    /\ alive' = alive \ {child}
    /\ pty' = [pty EXCEPT !.inq = <<>>]
    /\ UNCHANGED <<sessionVars, threadVars, logVars, now>>
    /\ UNCHANGED extVars

(***************************************************************************)
(* A method returns `res` to thread t: to the caller, or to the tool       *)
(* handler that called it.                                                 *)
(***************************************************************************)
Return(t, res) ==
    /\ last' = Returned(call[t].n, res, NoSnapshot)
    /\ IF call[t].ret = "idle"
       THEN /\ pc' = [pc EXCEPT ![t] = "idle"]
            /\ call' = [call EXCEPT ![t] = NoCall]
       ELSE /\ pc' = [pc EXCEPT ![t] = call[t].ret]
            /\ call' = [call EXCEPT ![t].res = res]

\* A method returns at once, from its first check.
ReturnAtOnce(t, res) ==
    /\ last' = Returned(0, res, NoSnapshot)
    /\ pc' = [pc EXCEPT ![t] = "idle"]
    /\ call' = [call EXCEPT ![t] = NoCall]

\* A method called by another method returns at once: the caller goes on
\* at `ret` with the result.
ReturnTo(t, ret, res) ==
    /\ last' = Returned(0, res, NoSnapshot)
    /\ pc' = [pc EXCEPT ![t] = ret]
    /\ call' = [call EXCEPT ![t] = IF ret = "idle" THEN NoCall
                                   ELSE [NoCall EXCEPT !.ret = ret,
                                                       !.res = res]]

\* A method goes on to its next blocking operation.
Enter(t, label, c) ==
    /\ pc' = [pc EXCEPT ![t] = label]
    /\ call' = [call EXCEPT ![t] = c]
    /\ UNCHANGED last

Goto(t, label) ==
    /\ pc' = [pc EXCEPT ![t] = label]
    /\ UNCHANGED <<call, last>>

(***************************************************************************)
(* VivadoSession.start                                                     *)
(***************************************************************************)
\* The except branches of start.
StartFailed(t, msg) ==
    /\ is_running' = FALSE
    /\ Return(t, CommandResult("start", msg, <<>>, "1", FALSE, 1))
    /\ UNCHANGED <<child, current_project, lock, stats, now>>

\* pexpect.spawn, which raises when the executable cannot be run.
\* echo=False asks the terminal not to repeat what is written; whether the
\* command text comes back on the stream is then up to the child, and the
\* framing loop of run_tcl is written for a child that does send it back.
\* Assigning self.child drops the spawn object it held: start never closes
\* it, and whether its finalizer runs and ends the old child is up to the
\* interpreter.
Spawn(t, ret) ==
    \/ /\ nspawn < spawnLimit
       /\ \E echo \in BOOLEAN :
             pty' = [NoPty EXCEPT !.echo = echo, !.inq = <<BootItem>>]
       /\ child' = nspawn + 1
       /\ \E dropped \in {{}, {child}} :
             alive' = (alive \ dropped) \cup {nspawn + 1}
       /\ nspawn' = nspawn + 1
       /\ Enter(t, "st_banner", [NoCall EXCEPT !.op = "start", !.ret = ret])
       /\ UNCHANGED <<is_running, current_project, lock, stats>>
    \/ /\ ReturnTo(t, ret, CommandResult("start", MsgStartError, <<>>, "1",
                                         FALSE, 1))
       /\ is_running' = FALSE
       /\ UNCHANGED <<child, current_project, lock, stats, procVars, nspawn>>

SpawnChild(t) == Spawn(t, "idle")

\* A variant of AlreadyRunning: start goes on to the spawn.
StartAnyway(t) == SpawnChild(t)

\* if self.is_running: return ... "Session already running"
AlreadyRunning(t) ==
    /\ ReturnAtOnce(t, CommandResult("start", MsgAlreadyRunning,
                                     <<>>, "0", TRUE, 0))
    /\ UNCHANGED <<sessionVars, procVars, nspawn>>

StartSpawn(t) ==
    /\ pc[t] = "idle"
    /\ IF is_running THEN AlreadyRunning(t) ELSE SpawnChild(t)
    /\ UNCHANGED <<now, ncmds, executed, wlog, lockOrder>>
    /\ UNCHANGED extVars

\* expect('Start of session'), the pause, the drain and sendline("").
StartBanner(t) ==
    /\ pc[t] = "st_banner"
    /\ \E o \in ExpectOutcomes(IsBanner) :
          CASE o = "match" ->
                 /\ pty' = [PtyAfterExpect(IsBanner, o) EXCEPT
                               !.inq = Append(@, [cmd |-> "", id |-> 0])]
                 /\ Goto(t, "st_prompt")
                 /\ UNCHANGED <<sessionVars, now>>
            [] o = "TIMEOUT" ->
                 /\ pty' = PtyAfterExpect(IsBanner, o)
                 /\ StartFailed(t, MsgStartTimeout)
            [] OTHER ->
                 /\ pty' = PtyAfterExpect(IsBanner, o)
                 /\ StartFailed(t, MsgStartError)
    /\ UNCHANGED <<alive, logVars>>
    /\ UNCHANGED extVars

\* expect('Vivado%') and what follows it.
StartPrompt(t) ==
    /\ pc[t] = "st_prompt"
    /\ \E o \in ExpectOutcomes(IsPrompt) :
          /\ pty' = PtyAfterExpect(IsPrompt, o)
          /\ CASE o = "match" ->
                    /\ is_running' = TRUE
                    /\ stats' = [stats EXCEPT !.session_start = now]
                    /\ now' = now + 1
                    /\ Return(t, CommandResult("start", MsgStarted, <<>>,
                                               "0", TRUE, 1))
                    /\ UNCHANGED <<child, current_project, lock>>
               [] o = "TIMEOUT" ->
                    StartFailed(t, MsgStartTimeout)
               [] OTHER ->
                    StartFailed(t, MsgStartError)
    /\ UNCHANGED <<alive, logVars>>
    /\ UNCHANGED extVars

(***************************************************************************)
(* VivadoSession.stop                                                      *)
(***************************************************************************)
\* The statements after the try of stop.
Stopped(t) ==
    /\ is_running' = FALSE
    /\ current_project' = None
    /\ Return(t, CommandResult("stop", MsgStopped, <<>>, "0", TRUE, 1))
    /\ UNCHANGED <<child, lock, stats>>

StopNotRunning(t) ==
    /\ ReturnAtOnce(t, CommandResult("stop", MsgStopNotRunning, <<>>,
                                     "0", TRUE, 0))
    /\ UNCHANGED <<sessionVars, procVars>>

\* The except branch of stop: close(force=True), whose own failure is
\* swallowed.
ForceClose ==
    /\ pty' = PtyAfterClose
    /\ alive' = alive \ {child}

\* sendline('exit') of a stop whose caller goes on at `ret`.
StopSend(t, ret) ==
    \E o \in SendOutcomes :
       CASE o = "ok" ->
              /\ pty' = PtyAfterSend("exit", 0)
              /\ Enter(t, "sp_wait",
                       [NoCall EXCEPT !.op = "stop", !.ret = ret])
              /\ UNCHANGED <<sessionVars, alive>>
         [] o = "lost" ->
              /\ Enter(t, "sp_wait",
                       [NoCall EXCEPT !.op = "stop", !.ret = ret])
              /\ UNCHANGED <<sessionVars, procVars>>
         [] OTHER ->
              /\ ForceClose
              /\ is_running' = FALSE
              /\ current_project' = None
              /\ ReturnTo(t, ret, CommandResult("stop", MsgStopped, <<>>,
                                                "0", TRUE, 1))
              /\ UNCHANGED <<child, lock, stats>>

\* The check of is_running and sendline('exit').
StopExit(t) ==
    /\ pc[t] = "idle"
    /\ IF ~is_running
       THEN StopNotRunning(t)
       ELSE StopSend(t, "idle")
    /\ UNCHANGED <<logVars, now>>
    /\ UNCHANGED extVars

\* expect(pexpect.EOF, timeout=30), the forced close when it fails.
StopWait(t) ==
    /\ pc[t] = "sp_wait"
    /\ IF ~pty.closed /\ ~ChildAlive
       THEN /\ pty' = [pty EXCEPT !.buf = <<>>, !.out = <<>>]
            /\ UNCHANGED alive
       ELSE ForceClose
    /\ Stopped(t)
    /\ UNCHANGED <<logVars, now>>
    /\ UNCHANGED extVars

(***************************************************************************)
(* VivadoSession.run_tcl                                                   *)
(***************************************************************************)
HistoryEntry(res) ==
    [command |-> res.command, success |-> res.success,
     elapsed_ms |-> res.elapsed_ms, timestamp |-> res.timestamp]

\* A variant of Truncate that keeps the oldest entries.
KeepOldest(h) ==
    IF Len(h) > HISTORY_MAX THEN SubSeq(h, 1, HISTORY_MAX) ELSE h

\* if len(history) > 100: history = history[-100:]
Truncate(h) ==
    IF Len(h) > HISTORY_MAX
    THEN SubSeq(h, Len(h) - HISTORY_MAX + 1, Len(h))
    ELSE h

\* A variant of the result of run_tcl on a session that is not running, with
\* return_value "0".
NotRunningZero(cmd) ==
    CommandResult(cmd, MsgNotRunning, <<>>, "0", FALSE, 0)

NotRunningResult(cmd) ==
    CommandResult(cmd, MsgNotRunning, <<>>, "1", FALSE, 0)

\* A variant of RunTclBegin without the check of is_running.
BeginUnchecked(t, cmd, ret, path) ==
    /\ pc[t] = "idle"
    /\ ncmds' = ncmds + 1
    /\ Enter(t, "rt_lock",
             [NoCall EXCEPT !.op = "run_tcl", !.n = ncmds + 1, !.cmd = cmd,
                            !.ret = ret, !.path = path])
    /\ UNCHANGED <<sessionVars, procVars, now, nspawn, executed, wlog,
                   lockOrder>>
    /\ UNCHANGED extVars

\* The check of is_running.  `ret` is where the caller goes on and `path`
\* what it means to remember: run_tcl itself uses neither.
RunTclBegin(t, cmd, ret, path) ==
    /\ pc[t] = "idle"
    /\ IF ~is_running
       THEN /\ ReturnAtOnce(t, NotRunningResult(cmd))
            /\ UNCHANGED ncmds
       ELSE /\ ncmds' = ncmds + 1
            /\ Enter(t, "rt_lock",
                     [NoCall EXCEPT !.op = "run_tcl", !.n = ncmds + 1,
                                    !.cmd = cmd, !.ret = ret, !.path = path])
    /\ UNCHANGED <<sessionVars, procVars, now, nspawn, executed, wlog,
                   lockOrder>>
    /\ UNCHANGED extVars

RunTclCheck(t, cmd) == RunTclBegin(t, cmd, "idle", None)

\* run_tcl(command, timeout_override): the same check for a call that names
\* a timeout.
RunTclTimed(t, cmd, timeout_override) ==
    /\ pc[t] = "idle"
    /\ IF ~is_running
       THEN /\ ReturnAtOnce(t, NotRunningResult(cmd))
            /\ UNCHANGED ncmds
       ELSE /\ ncmds' = ncmds + 1
            /\ Enter(t, "rt_lock",
                     [NoCall EXCEPT !.op = "run_tcl", !.n = ncmds + 1,
                                    !.cmd = cmd,
                                    !.timeout_override = timeout_override])
    /\ UNCHANGED <<sessionVars, procVars, now, nspawn, executed, wlog,
                   lockOrder>>
    /\ UNCHANGED extVars

\* effective_timeout = timeout_override if timeout_override is not None
\*                     else self.timeout
EffectiveTimeout(timeout_override) ==
    IF timeout_override # NoOverride THEN timeout_override[1]
    ELSE self_timeout

\* A variant of RunTclTimeout that gives the session up and kills the
\* child.
TimeoutKills(t) ==
    /\ stats' = [stats EXCEPT !.errors = @ + 1]
    /\ lock' = NoThread
    /\ is_running' = FALSE
    /\ alive' = alive \ {child}
    /\ Return(t, CommandResult(call[t].cmd, MsgTimeout, <<>>, "1", FALSE, 1))
    /\ UNCHANGED <<child, current_project, now>>

\* A variant of RunTclTimeout that returns without releasing the lock.
TimeoutHoldsLock(t) ==
    /\ stats' = [stats EXCEPT !.errors = @ + 1]
    /\ Return(t, CommandResult(call[t].cmd, MsgTimeout, <<>>, "1", FALSE, 1))
    /\ UNCHANGED <<is_running, child, current_project, lock, alive, now>>

\* The except branches of run_tcl.  The with statement releases the lock.
RunTclTimeout(t) ==
    /\ stats' = [stats EXCEPT !.errors = @ + 1]
    /\ lock' = NoThread
    /\ Return(t, CommandResult(call[t].cmd, MsgTimeout, <<>>, "1", FALSE, 1))
    /\ UNCHANGED <<is_running, child, current_project, alive, now>>

RunTclException(t) ==
    /\ stats' = [stats EXCEPT !.errors = @ + 1]
    /\ lock' = NoThread
    /\ Return(t, CommandResult(call[t].cmd, MsgError, <<>>, "1", FALSE, 1))
    /\ UNCHANGED <<is_running, child, current_project, alive, now>>

\* An exception leaves the method: the with statement releases the lock
\* and the caller gets no result.
Raised(exc) == [NoResult EXCEPT !.msg = exc, !.return_value = "raised"]

Propagate(t, exc) ==
    /\ last' = Returned(call[t].n, Raised(exc), NoSnapshot)
    /\ pc' = [pc EXCEPT ![t] = "idle"]
    /\ call' = [call EXCEPT ![t] = NoCall]
    /\ lock' = IF lock = t THEN NoThread ELSE lock
    /\ UNCHANGED <<is_running, child, current_project, stats, alive, now>>

\* A variant of RunTclCatch with no handler but the one of TIMEOUT.
CatchTimeoutOnly(t, exc) ==
    IF exc = "TIMEOUT" THEN RunTclTimeout(t) ELSE Propagate(t, exc)

\* except pexpect.TIMEOUT: ... except Exception as e: ...  EOF, OSError
\* and ValueError are all subclasses of Exception.
RunTclCatch(t, exc) ==
    IF exc = "TIMEOUT" THEN RunTclTimeout(t) ELSE RunTclException(t)

\* A variant of LockFree: a lock that never makes anybody wait.
NeverHeld == TRUE

\* threading.Lock: acquire() goes through when nobody holds the lock.
LockFree == lock = NoThread

\* with self._lock:, the drain and sendline(command).
RunTclSend(t) ==
    /\ pc[t] = "rt_lock"
    /\ LockFree
    /\ lockOrder' = Append(lockOrder, call[t].n)
    /\ \E o \in SendOutcomes :
          CASE o = "ok" ->
                 /\ lock' = t
                 /\ pty' = [PtyAfterSend(call[t].cmd, call[t].n) EXCEPT
                               !.out = IF pty.echo
                                       THEN <<Line("echo", call[t].n,
                                                   call[t].cmd)>>
                                       ELSE <<>>]
                 /\ wlog' = Append(wlog, call[t].n)
                 /\ Goto(t, "rt_expect")
                 /\ UNCHANGED <<is_running, child, current_project, stats,
                                alive, now>>
            [] o = "lost" ->
                 /\ lock' = t
                 /\ pty' = PtyAfterDrain
                 /\ Goto(t, "rt_expect")
                 /\ UNCHANGED <<is_running, child, current_project, stats,
                                alive, now, wlog>>
            [] OTHER ->
                 /\ pty' = IF pty.closed THEN pty ELSE PtyAfterDrain
                 /\ RunTclCatch(t, IF pty.closed THEN "ValueError"
                                   ELSE "OSError")
                 /\ UNCHANGED wlog
    /\ UNCHANGED <<nspawn, ncmds, executed>>
    /\ UNCHANGED extVars

\* The statements from the framing loop to the construction of the result.
RunTclFramed(t, e, raw) ==
    LET output == Frame(raw, call[t].cmd)
        success == ~is_actual_failure(output)
        res == CommandResult(call[t].cmd, "", output,
                             IF success THEN "0" ELSE "1", success, e)
    IN  /\ stats' = [stats EXCEPT
                        !.commands_run = @ + 1,
                        !.total_command_time_ms = @ + e,
                        !.errors = IF success THEN @ ELSE @ + 1]
        /\ executed' = Append(executed, HistoryEntry(res))
        /\ call' = [call EXCEPT ![t].res = res]
        /\ now' = now + 1
        /\ pc' = [pc EXCEPT ![t] = "rt_record"]
        /\ UNCHANGED <<is_running, child, current_project, lock, alive,
                       last>>

\* expect('Vivado%', timeout=effective_timeout) and what follows it.
RunTclExpect(t, e) ==
    /\ pc[t] = "rt_expect"
    /\ \E o \in ExpectOutcomes(IsPrompt) :
          /\ pty' = PtyAfterExpect(IsPrompt, o)
          /\ CASE o = "match" -> RunTclFramed(t, e, Before(IsPrompt))
               [] OTHER ->
                    /\ RunTclCatch(t, o)
                    /\ UNCHANGED executed
    /\ UNCHANGED <<nspawn, ncmds, wlog, lockOrder>>
    /\ UNCHANGED extVars

\* command_history.append(...) as a dictionary of get_stats sees it: the
\* entry is added to the list object it shares with the session, and the
\* truncation gives the session a new list object.
AppendLive(snap, entry) ==
    IF snap.live
    THEN [snap EXCEPT !.command_history = Append(@, entry),
                      !.live = Len(snap.command_history) + 1 <= HISTORY_MAX]
    ELSE snap

\* The append to the history, its truncation, and the return.
RunTclRecord(t) ==
    /\ pc[t] = "rt_record"
    /\ stats' = [stats EXCEPT !.command_history =
                    Truncate(Append(@, HistoryEntry(call[t].res)))]
    /\ lock' = NoThread
    /\ last' = Returned(call[t].n, call[t].res, NoSnapshot)
    /\ pc' = [pc EXCEPT ![t] = call[t].ret]
    /\ call' = [u \in Threads |->
                  IF u = t
                  THEN IF call[t].ret = "idle" THEN NoCall ELSE call[t]
                  ELSE [call[u] EXCEPT !.snap =
                           AppendLive(@, HistoryEntry(call[t].res))]]
    /\ held' = AppendLive(held, HistoryEntry(call[t].res))
    /\ UNCHANGED <<is_running, child, current_project, procVars, now,
                   logVars>>
    /\ UNCHANGED <<classVars, moduleVars, hlog, spawnLimit>>

(***************************************************************************)
(* VivadoSession.get_stats                                                 *)
(***************************************************************************)
\* stats = self.stats.copy(), then the two fields added to the copy.
GetStatsCopy(t) ==
    /\ pc[t] = "idle"
    /\ pc' = [pc EXCEPT ![t] = "gs_avg"]
    /\ call' = [call EXCEPT ![t] =
          [NoCall EXCEPT !.op = "get_stats",
             !.snap = [NoSnapshot EXCEPT
                !.valid = TRUE,
                !.is_running = is_running,
                !.current_project = current_project,
                !.session_start = stats.session_start,
                !.commands_run = stats.commands_run,
                !.total_command_time_ms = stats.total_command_time_ms,
                !.errors = stats.errors,
                !.command_history = stats.command_history,
                !.live = TRUE]]]
    /\ UNCHANGED <<sessionVars, procVars, last, now, logVars>>
    /\ UNCHANGED extVars

\* if self.stats["commands_run"] > 0: stats["avg_command_time_ms"] = ...
WithAverage(snap) ==
    IF stats.commands_run > 0
    THEN [snap EXCEPT !.has_avg = TRUE,
                      !.avg_num = stats.total_command_time_ms,
                      !.avg_den = stats.commands_run]
    ELSE snap

GetStatsAvg(t) ==
    /\ pc[t] = "gs_avg"
    /\ last' = Returned(0, NoResult, WithAverage(call[t].snap))
    /\ pc' = [pc EXCEPT ![t] = "idle"]
    /\ call' = [call EXCEPT ![t] = NoCall]
    /\ UNCHANGED <<sessionVars, procVars, now, logVars>>
    /\ UNCHANGED extVars

\* get_stats returns to a caller that keeps the dictionary.
GetStatsKeep(t) ==
    /\ pc[t] = "gs_avg"
    /\ last' = Returned(0, NoResult, WithAverage(call[t].snap))
    /\ held' = WithAverage(call[t].snap)
    /\ pc' = [pc EXCEPT ![t] = "idle"]
    /\ call' = [call EXCEPT ![t] = NoCall]
    /\ UNCHANGED <<sessionVars, procVars, now, logVars>>
    /\ UNCHANGED <<classVars, moduleVars, hlog, spawnLimit>>

(***************************************************************************)
(* call_tool of src/server.py: open_project and close_project.             *)
(***************************************************************************)
\* call_tool is a coroutine that never awaits between its statements: the
\* event loop runs one tool call at a time, on one thread.
ServerThread == "t1"

ToolError(t) ==
    /\ ReturnAtOnce(t, CommandResult("tool", MsgToolNotRunning, <<>>, "1",
                                     FALSE, 0))
    /\ UNCHANGED <<sessionVars, procVars, now, logVars>>
    /\ UNCHANGED extVars

\* A variant of the open_project tool without the dispatcher's check of
\* is_running.
OpenUnchecked(t, path) ==
    /\ pc[t] = "idle"
    /\ RunTclBegin(t, "open_project", "tool_open", path)

OpenProject(t, path) ==
    /\ pc[t] = "idle"
    /\ IF ~is_running
       THEN ToolError(t)
       ELSE RunTclBegin(t, "open_project", "tool_open", path)

CloseProject(t) ==
    /\ pc[t] = "idle"
    /\ IF ~is_running
       THEN ToolError(t)
       ELSE RunTclBegin(t, "close_project", "tool_close", None)

\* A variant of the statement after open_project's run_tcl that sets the
\* project whatever the result.
OpenAlwaysSets(t) ==
    /\ pc[t] = "tool_open"
    /\ current_project' = call[t].path
    /\ pc' = [pc EXCEPT ![t] = "idle"]
    /\ call' = [call EXCEPT ![t] = NoCall]
    /\ UNCHANGED <<is_running, child, lock, stats, procVars, last, now,
                   logVars>>
    /\ UNCHANGED extVars

\* if result.success: session.current_project = project_path
ToolOpenDone(t) ==
    /\ pc[t] = "tool_open"
    /\ current_project' = IF call[t].res.success THEN call[t].path
                          ELSE current_project
    /\ pc' = [pc EXCEPT ![t] = "idle"]
    /\ call' = [call EXCEPT ![t] = NoCall]
    /\ UNCHANGED <<is_running, child, lock, stats, procVars, last, now,
                   logVars>>
    /\ UNCHANGED extVars

\* session.current_project = None
ToolCloseDone(t) ==
    /\ pc[t] = "tool_close"
    /\ current_project' = None
    /\ pc' = [pc EXCEPT ![t] = "idle"]
    /\ call' = [call EXCEPT ![t] = NoCall]
    /\ UNCHANGED <<is_running, child, lock, stats, procVars, last, now,
                   logVars>>
    /\ UNCHANGED extVars

(***************************************************************************)
(* VivadoSession.is_healthy.  It takes no lock and catches TIMEOUT and EOF *)
(* only: any other exception of the channel leaves it.                     *)
(***************************************************************************)
\* The bool is_healthy returns.
HealthResult(b) ==
    [NoResult EXCEPT !.command = "is_healthy", !.return_value = "bool",
                     !.success = b]

\* An exception leaves is_healthy, and ensure_healthy when that called it.
HealthRaise(t, ret, exc) ==
    /\ last' = Returned(0, [Raised(exc) EXCEPT
                               !.command = IF ret = "idle" THEN "is_healthy"
                                           ELSE "health_check"],
                        NoSnapshot)
    /\ pc' = [pc EXCEPT ![t] = "idle"]
    /\ call' = [call EXCEPT ![t] = NoCall]

\* The check of is_running and of child, and sendline("puts {HEALTH_OK}").
HealthSend(t, ret) ==
    /\ IF ~is_running \/ child = 0
       THEN /\ ReturnTo(t, ret, HealthResult(FALSE))
            /\ UNCHANGED pty
       ELSE \E o \in SendOutcomes :
               CASE o = "ok" ->
                      /\ pty' = PtyAfterSend(HealthCmd, 0)
                      /\ Enter(t, "ih_marker",
                               [NoCall EXCEPT !.op = "is_healthy",
                                              !.ret = ret])
                 [] o = "lost" ->
                      /\ Enter(t, "ih_marker",
                               [NoCall EXCEPT !.op = "is_healthy",
                                              !.ret = ret])
                      /\ UNCHANGED pty
                 [] OTHER ->
                      /\ HealthRaise(t, ret, "OSError")
                      /\ UNCHANGED pty
    /\ UNCHANGED <<sessionVars, alive, logVars, now>>
    /\ UNCHANGED <<classVars, moduleVars, spawnLimit, held>>

HealthBegin(t, ret) ==
    /\ pc[t] = "idle"
    /\ HealthSend(t, ret)

IsHealthy(t) ==
    /\ HealthBegin(t, "idle")
    /\ UNCHANGED hlog

\* expect("HEALTH_OK", timeout=5)
IsHealthyMarker(t) ==
    /\ pc[t] = "ih_marker"
    /\ \E o \in ExpectOutcomes(IsHealthOk) :
          /\ pty' = PtyAfterExpect(IsHealthOk, o)
          /\ CASE o = "match" -> Goto(t, "ih_prompt")
               [] o \in {"TIMEOUT", "EOF"} -> Return(t, HealthResult(FALSE))
               [] OTHER -> HealthRaise(t, call[t].ret, o)
    /\ UNCHANGED <<sessionVars, alive, logVars, now>>
    /\ UNCHANGED extVars

\* expect("Vivado%", timeout=5)
IsHealthyPrompt(t) ==
    /\ pc[t] = "ih_prompt"
    /\ \E o \in ExpectOutcomes(IsPrompt) :
          /\ pty' = PtyAfterExpect(IsPrompt, o)
          /\ CASE o = "match" -> Return(t, HealthResult(TRUE))
               [] o \in {"TIMEOUT", "EOF"} -> Return(t, HealthResult(FALSE))
               [] OTHER -> HealthRaise(t, call[t].ret, o)
    /\ UNCHANGED <<sessionVars, alive, logVars, now>>
    /\ UNCHANGED extVars

(***************************************************************************)
(* VivadoSession.ensure_healthy.  hlog lists the methods the last call of  *)
(* ensure_healthy has called.                                              *)
(***************************************************************************)
\* if self.is_healthy():
EnsureBegin(t) ==
    /\ hlog' = <<"is_healthy">>
    /\ HealthBegin(t, "eh_check")

\* return CommandResult("health_check", ...), or self.stop()
EnsureCheck(t) ==
    /\ pc[t] = "eh_check"
    /\ IF call[t].res.success
       THEN /\ ReturnTo(t, "idle", CommandResult("health_check", MsgHealthy,
                                                  <<>>, "0", TRUE, 0))
            /\ UNCHANGED <<sessionVars, procVars, hlog>>
       ELSE /\ hlog' = Append(hlog, "stop")
            /\ IF ~is_running
               THEN /\ ReturnTo(t, "eh_start",
                                CommandResult("stop", MsgStopNotRunning, <<>>,
                                              "0", TRUE, 0))
                    /\ UNCHANGED <<sessionVars, procVars>>
               ELSE StopSend(t, "eh_start")
    /\ UNCHANGED <<logVars, now>>
    /\ UNCHANGED <<classVars, moduleVars, spawnLimit, held>>

\* self.start()
EnsureStart(t) ==
    /\ pc[t] = "eh_start"
    /\ hlog' = Append(hlog, "start")
    /\ IF is_running
       THEN /\ ReturnTo(t, "eh_done", CommandResult("start", MsgAlreadyRunning,
                                                     <<>>, "0", TRUE, 0))
            /\ UNCHANGED <<sessionVars, procVars, nspawn>>
       ELSE Spawn(t, "eh_done")
    /\ UNCHANGED <<now, ncmds, executed, wlog, lockOrder>>
    /\ UNCHANGED <<classVars, moduleVars, spawnLimit, held>>

\* return self.start()
EnsureDone(t) ==
    /\ pc[t] = "eh_done"
    /\ ReturnTo(t, "idle", call[t].res)
    /\ UNCHANGED <<sessionVars, procVars, logVars, now>>
    /\ UNCHANGED extVars

(***************************************************************************)
(* The check_session_health tool of call_tool.  The statement that follows *)
(* session.start() builds the response with action "started" and the one   *)
(* that follows session.ensure_healthy() the response with action          *)
(* "restarted", whatever the method returned: the tool returns with that   *)
(* action in the step in which the method returns.  The other responses    *)
(* have action "none".                                                     *)
(***************************************************************************)
ToolHealthResult(action) ==
    [NoResult EXCEPT !.command = "check_session_health", !.msg = action]

\* if not session.is_running: ...; is_healthy = session.is_healthy()
HealthTool(t, auto_recover) ==
    /\ pc[t] = "idle"
    /\ IF ~is_running
       THEN IF auto_recover
            THEN /\ SpawnChild(t)
                 /\ UNCHANGED <<now, ncmds, executed, wlog, lockOrder>>
                 /\ UNCHANGED <<classVars, moduleVars, spawnLimit, held>>
            ELSE /\ ReturnAtOnce(t, ToolHealthResult("none"))
                 /\ UNCHANGED <<sessionVars, procVars, now, logVars>>
                 /\ UNCHANGED <<classVars, moduleVars, spawnLimit, held>>
       ELSE HealthSend(t, IF auto_recover THEN "ht_recover" ELSE "ht_report")
    /\ UNCHANGED hlog

\* if is_healthy: ...; if auto_recover: result = session.ensure_healthy()
HealthToolCheck(t) ==
    /\ pc[t] \in {"ht_recover", "ht_report"}
    /\ IF call[t].res.success \/ pc[t] = "ht_report"
       THEN /\ ReturnTo(t, "idle", ToolHealthResult("none"))
            /\ UNCHANGED <<sessionVars, procVars, now, logVars, hlog>>
            /\ UNCHANGED <<classVars, moduleVars, spawnLimit, held>>
       ELSE /\ hlog' = <<"is_healthy">>
            /\ HealthSend(t, "eh_check")

(***************************************************************************)
(* get_session and reset_session.  The variables of the session are those  *)
(* of the instance _session refers to; session is 0 when _session is None. *)
(***************************************************************************)
ModuleResult(name) == [NoResult EXCEPT !.command = name]

\* A variant of NewInstance that keeps what the instance before it had.
KeepInstance ==
    UNCHANGED <<sessionVars, pty>>

\* VivadoSession()
NewInstance ==
    /\ is_running' = FALSE
    /\ child' = 0
    /\ current_project' = None
    /\ lock' = NoThread
    /\ stats' = InitStats
    /\ pty' = NoPty

get_session(t) ==
    /\ pc[t] = "idle"
    /\ IF session = 0
       THEN /\ ninst < MaxInstances
            /\ ninst' = ninst + 1
            /\ session' = ninst + 1
            /\ NewInstance
            /\ held' = [held EXCEPT !.live = FALSE]
       ELSE UNCHANGED <<sessionVars, pty, moduleVars, held>>
    /\ ReturnTo(t, "idle", ModuleResult("get_session"))
    /\ UNCHANGED <<alive, logVars, now>>
    /\ UNCHANGED <<classVars, hlog, spawnLimit>>

\* _session = None.  Nothing refers to the instance any more: whether the
\* finalizer of its spawn object runs and ends a child that stop did not
\* end is up to the interpreter.
DropSession(t) ==
    /\ session' = 0
    /\ \E dropped \in {{}, {child}} : alive' = alive \ dropped
    /\ ReturnTo(t, "idle", ModuleResult("reset_session"))
    /\ UNCHANGED <<sessionVars, pty, ninst>>

\* if _session is not None and _session.is_running: _session.stop()
ResetBegin(t) ==
    /\ pc[t] = "idle"
    /\ IF session # 0 /\ is_running
       THEN /\ StopSend(t, "rs_drop")
            /\ UNCHANGED moduleVars
       ELSE DropSession(t)
    /\ UNCHANGED <<logVars, now>>
    /\ UNCHANGED <<classVars, hlog, spawnLimit, held>>

ResetDrop(t) ==
    /\ pc[t] = "rs_drop"
    /\ DropSession(t)
    /\ UNCHANGED <<logVars, now>>
    /\ UNCHANGED <<classVars, hlog, spawnLimit, held>>

(***************************************************************************)
(* The specification: the threads call start, stop, run_tcl and get_stats  *)
(* in any order and at any time; at most MaxCmds commands are run and at   *)
(* most MaxSpawns processes spawned.                                       *)
(***************************************************************************)
MayRun == ncmds < MaxCmds

Next ==
    \/ \E t \in Threads : StartSpawn(t)
    \/ \E t \in Threads : StartBanner(t)
    \/ \E t \in Threads : StartPrompt(t)
    \/ \E t \in Threads : StopExit(t)
    \/ \E t \in Threads : StopWait(t)
    \/ \E t \in Threads, c \in Commands : MayRun /\ RunTclCheck(t, c)
    \/ \E t \in Threads : RunTclSend(t)
    \/ \E t \in Threads, e \in ElapsedMs : RunTclExpect(t, e)
    \/ \E t \in Threads : RunTclRecord(t)
    \/ \E t \in Threads : GetStatsCopy(t)
    \/ \E t \in Threads : GetStatsAvg(t)
    \/ ChildRespond
    \/ ChildDie

Spec == Init /\ [][Next]_vars

(***************************************************************************)
(* The tool dispatcher: the server thread calls the project tools, and     *)
(* any thread calls start and stop.                                        *)
(***************************************************************************)
NextTools ==
    \/ \E t \in Threads : StartSpawn(t)
    \/ \E t \in Threads : StartBanner(t)
    \/ \E t \in Threads : StartPrompt(t)
    \/ \E t \in Threads : StopExit(t)
    \/ \E t \in Threads : StopWait(t)
    \/ \E p \in Projects : MayRun /\ OpenProject(ServerThread, p)
    \/ MayRun /\ CloseProject(ServerThread)
    \/ \E t \in Threads : RunTclSend(t)
    \/ \E t \in Threads, e \in ElapsedMs : RunTclExpect(t, e)
    \/ \E t \in Threads : RunTclRecord(t)
    \/ ToolOpenDone(ServerThread)
    \/ ToolCloseDone(ServerThread)
    \/ ChildRespond
    \/ ChildDie

SpecTools == Init /\ [][NextTools]_vars

(***************************************************************************)
(* A long session: one thread starts the session and runs HistCmds         *)
(* commands, report_x and bogus in turn, each taking 1 ms; the child       *)
(* answers, and once the history is full it is too slow for the timeout at *)
(* most HistTimeouts times.                                                *)
(***************************************************************************)
HistCommand == IF ncmds % 2 = 0 THEN "report_x" ELSE "bogus"

InTime == MatchAt(IsPrompt) # 0

HistoryFull == Len(stats.command_history) = HISTORY_MAX

TimedOut == ncmds - stats.commands_run - 1

NextHist ==
    \/ StartSpawn("t1")
    \/ StartBanner("t1")
    \/ StartPrompt("t1")
    \/ ncmds < HistCmds /\ RunTclCheck("t1", HistCommand)
    \/ RunTclSend("t1")
    \/ /\ InTime \/ (TimedOut < HistTimeouts /\ HistoryFull)
       /\ RunTclExpect("t1", 1)
    \/ RunTclRecord("t1")
    \/ ChildRespond

SpecHist == Init /\ [][NextHist]_vars

(***************************************************************************)
(* The classifier on its own: a text of at most MaxLines lines is put      *)
(* together from the lines of ClassLines and then classified.              *)
(***************************************************************************)
ClassLines ==
    {<<Blank, "ERROR:", Blank, "[", "x">>,
     <<"|", Blank, "x", Blank, "ERROR", Blank, "|">>,
     <<"x", Blank, "ERROR:", Blank, "[">>,
     <<"Invalid Command Name", Blank, "x">>,
     <<"+---------">>,
     <<>>}

AddLine(l) ==
    /\ ~classification.done
    /\ Len(text) < MaxLines
    /\ text' = Append(text, l)
    /\ UNCHANGED <<classification, framed, sessionVars, procVars,
                   threadVars, logVars, now, moduleVars, hlog, spawnLimit,
                   held>>

Classify ==
    /\ ~classification.done
    /\ classification' = classify_output_errors(text)
    /\ UNCHANGED <<text, framed, sessionVars, procVars, threadVars,
                   logVars, now, moduleVars, hlog, spawnLimit, held>>

NextClassify ==
    \/ \E l \in ClassLines : AddLine(l)
    \/ Classify

SpecClassify == Init /\ [][NextClassify]_vars

(***************************************************************************)
(* The framing loop on its own: a captured text of at most MaxRawLines     *)
(* lines is put together from the lines of RawLines and then framed for a  *)
(* command of FrameCommands.                                               *)
(***************************************************************************)
RawLines ==
    {<<"a", "b", CR>>,
     <<"#", Blank, "a", "b", Blank, "x", CR>>,
     <<"a", CR, "b">>,
     <<Blank, "x", CR, "y", Blank, CR>>,
     <<Blank, PromptMarker, Blank, "x", CR>>,
     <<Blank, CR>>}

FrameCommands == {<<"a", "b">>, <<Blank, "a", "b", Blank>>, <<>>, <<"z">>}

AddRawLine(l) ==
    /\ ~framed.done
    /\ Len(text) < MaxRawLines
    /\ text' = Append(text, l)
    /\ UNCHANGED <<classification, framed, sessionVars, procVars,
                   threadVars, logVars, now, moduleVars, hlog, spawnLimit,
                   held>>

FrameRaw(c) ==
    /\ ~framed.done
    /\ framed' = [done |-> TRUE, command |-> c, output |-> FrameText(text, c)]
    /\ UNCHANGED <<text, classification, sessionVars, procVars, threadVars,
                   logVars, now, moduleVars, hlog, spawnLimit, held>>

NextFrame ==
    \/ \E l \in RawLines : AddRawLine(l)
    \/ \E c \in FrameCommands : FrameRaw(c)

SpecFrame == Init /\ [][NextFrame]_vars

(***************************************************************************)
(* Recovery: one caller gets the session from get_session and calls start, *)
(* stop, run_tcl, is_healthy, ensure_healthy and reset_session one after   *)
(* the other, while the child answers, is slow or dies.  At most           *)
(* MaxRespawns processes are spawned, MaxInstances instances made and      *)
(* MaxRecoverCmds commands run, and is_healthy is not called with          *)
(* MaxPending lines waiting in the channel.                                *)
(***************************************************************************)
Caller == "t1"

HasSession == session # 0

MayCheckHealth ==
    HasSession /\ Len(pty.inq) + Len(pty.out) + Len(pty.buf) < MaxPending

NextRecover ==
    \/ get_session(Caller)
    \/ ResetBegin(Caller)
    \/ ResetDrop(Caller)
    \/ HasSession /\ StartSpawn(Caller)
    \/ StartBanner(Caller)
    \/ StartPrompt(Caller)
    \/ HasSession /\ StopExit(Caller)
    \/ StopWait(Caller)
    \/ HasSession /\ ncmds < MaxRecoverCmds /\ RunTclCheck(Caller, "report_x")
    \/ RunTclSend(Caller)
    \/ RunTclExpect(Caller, 1)
    \/ RunTclRecord(Caller)
    \/ MayCheckHealth /\ IsHealthy(Caller)
    \/ IsHealthyMarker(Caller)
    \/ IsHealthyPrompt(Caller)
    \/ MayCheckHealth /\ EnsureBegin(Caller)
    \/ EnsureCheck(Caller)
    \/ EnsureStart(Caller)
    \/ EnsureDone(Caller)
    \/ ChildRespond
    \/ ChildDie

InitRecover == Constructed /\ spawnLimit = MaxRespawns

SpecRecover == InitRecover /\ [][NextRecover]_vars

(***************************************************************************)
(* Progress.  One thread starts the session, both threads run report_x,   *)
(* at most MaxCmds times in all, and either may stop the session; the      *)
(* child answers, is slow or dies.  The wait of run_tcl has a finite       *)
(* timeout, so a thread that waits for the prompt goes on; the statements  *)
(* after the wait run to the end; and the lock lets a thread in that finds *)
(* it free from some time on, which is less than a fair lock promises.     *)
(***************************************************************************)
NextLive ==
    \/ StartSpawn(Caller)
    \/ StartBanner(Caller)
    \/ StartPrompt(Caller)
    \/ \E t \in Threads : StopExit(t)
    \/ \E t \in Threads : StopWait(t)
    \/ \E t \in Threads : MayRun /\ RunTclCheck(t, "report_x")
    \/ \E t \in Threads : RunTclSend(t)
    \/ \E t \in Threads : RunTclExpect(t, 1)
    \/ \E t \in Threads : RunTclRecord(t)
    \/ ChildRespond
    \/ ChildDie

\* The step by which expect('Vivado%') of thread t ends: of the steps of
\* NextLive, those of RunTclExpect(t, 1), which is enabled whenever t waits.
ExpectEnds(t) ==
    /\ pc[t] = "rt_expect"
    /\ \E l \in {"rt_record", "idle"} : pc' = [pc EXCEPT ![t] = l]

Progress ==
    \A t \in Threads :
       /\ WF_vars(RunTclSend(t))
       /\ WF_pc(ExpectEnds(t))
       /\ WF_vars(RunTclRecord(t))

SpecLive == Init /\ [][NextLive]_vars /\ Progress

(***************************************************************************)
(* The health tool: one caller gets the session, starts and stops it and   *)
(* calls the check_session_health tool, with and without auto_recover.     *)
(***************************************************************************)
NextHealth ==
    \/ get_session(Caller)
    \/ HasSession /\ StartSpawn(Caller)
    \/ StartBanner(Caller)
    \/ StartPrompt(Caller)
    \/ HasSession /\ StopExit(Caller)
    \/ StopWait(Caller)
    \/ \E a \in BOOLEAN : MayCheckHealth /\ HealthTool(Caller, a)
    \/ IsHealthyMarker(Caller)
    \/ IsHealthyPrompt(Caller)
    \/ HealthToolCheck(Caller)
    \/ EnsureCheck(Caller)
    \/ EnsureStart(Caller)
    \/ EnsureDone(Caller)
    \/ ChildRespond
    \/ ChildDie

SpecHealth == InitRecover /\ [][NextHealth]_vars

(***************************************************************************)
(* Timeouts: one caller starts the session and runs commands with and      *)
(* without a timeout of their own.                                         *)
(***************************************************************************)
Overrides == {NoOverride, <<0>>, <<600>>}

NextTimed ==
    \/ StartSpawn(Caller)
    \/ StartBanner(Caller)
    \/ StartPrompt(Caller)
    \/ \E o \in Overrides :
          ncmds < MaxStatCmds /\ RunTclTimed(Caller, "report_x", o)
    \/ RunTclSend(Caller)
    \/ \E e \in ElapsedMs : RunTclExpect(Caller, e)
    \/ RunTclRecord(Caller)
    \/ ChildRespond

SpecTimed == Init /\ [][NextTimed]_vars

(***************************************************************************)
(* Starting: the callers start and stop the session at the same time, and  *)
(* the host lets pexpect.spawn create MaxRespawns processes.               *)
(***************************************************************************)
NextStart ==
    \/ \E t \in Threads : StartSpawn(t)
    \/ \E t \in Threads : StartBanner(t)
    \/ \E t \in Threads : StartPrompt(t)
    \/ \E t \in Threads : StopExit(t)
    \/ \E t \in Threads : StopWait(t)
    \/ ChildRespond

SpecStart == InitRecover /\ [][NextStart]_vars

(***************************************************************************)
(* Statistics: one caller starts the session, runs at most MaxStatCmds     *)
(* commands and calls get_stats in between, keeping the dictionary it got  *)
(* last.                                                                   *)
(***************************************************************************)
NextStats ==
    \/ StartSpawn(Caller)
    \/ StartBanner(Caller)
    \/ StartPrompt(Caller)
    \/ \E c \in Commands : ncmds < MaxStatCmds /\ RunTclCheck(Caller, c)
    \/ RunTclSend(Caller)
    \/ \E e \in ElapsedMs : RunTclExpect(Caller, e)
    \/ RunTclRecord(Caller)
    \/ GetStatsCopy(Caller)
    \/ GetStatsKeep(Caller)
    \/ ChildRespond

SpecStats == Init /\ [][NextStats]_vars

(***************************************************************************)
(* Properties.                                                             *)
(***************************************************************************)
Range(s) == {s[i] : i \in 1..Len(s)}

InCritical(t) == pc[t] \in {"rt_expect", "rt_record"}

\* C1: run_tcl called while the session is not Running returns the
\* "not running" result with success false, and does nothing else: the
\* child and its stream are not touched, the lock is not taken, and the
\* counters and the history stay as they are.
C1_NotRunningRejected ==
    [][\A t \in Threads, c \in Commands :
          (~is_running /\ RunTclCheck(t, c)) =>
             /\ last'.res = NotRunningResult(c)
             /\ ~last'.res.success
             /\ pc'[t] = "idle"
             /\ UNCHANGED <<pty, alive, child, lock, stats, wlog, lockOrder,
                            executed>>]_vars

C1_Witness ==
    /\ ~is_running
    /\ last.res.msg = MsgNotRunning
    /\ last.res.command \in Commands
    /\ ~last.res.success

\* C2: the commands reach the child in the order in which their callers
\* took the lock, and the result a run_tcl call returns holds no line that
\* belongs to the command of another run_tcl call (id 0 marks the lines of
\* start and stop).
C2_NoCrossTalk ==
    /\ wlog = SelectSeq(lockOrder, LAMBDA n : n \in Range(wlog))
    /\ \A i \in 1..Len(last.res.lines) :
          last.res.lines[i].id \in {0, last.n}

\* C3: at most one thread is between the write of its command and the end
\* of its wait for the prompt; that thread holds the lock, and the last
\* command written to the child is its own.
C3_MutualExclusion ==
    /\ Cardinality({t \in Threads : InCritical(t)}) <= 1
    /\ \A t \in Threads : InCritical(t) => lock = t
    /\ \A t \in Threads :
          (pc[t] = "rt_expect" /\ call[t].n \in Range(wlog)) =>
             wlog[Len(wlog)] = call[t].n

C3_Witness ==
    \E t, u \in Threads :
       /\ pc[t] = "rt_expect"
       /\ call[t].n \in Range(wlog)
       /\ pc[u] = "rt_lock"

\* C4: run_tcl never raises: whatever it returns is a CommandResult, the
\* results of its except branches have success false, and a thread that is
\* not inside the locked section does not hold the lock.
C4_NeverRaises ==
    /\ last.res.return_value # "raised"
    /\ last.res.msg \in {MsgTimeout, MsgError} => ~last.res.success
    /\ \A t \in Threads : lock = t => InCritical(t)

C4_Witness ==
    /\ last.n > 0
    /\ last.res.msg = MsgError
    /\ ~last.res.success
    /\ lock = NoThread

\* C5: when the wait for the prompt times out, run_tcl returns the timeout
\* result with success false and leaves the session as it is: is_running
\* and the child handle are unchanged, the child is not killed, the spawn
\* is not closed, and nothing is written to the child.
C5_TimeoutKeepsChild ==
    [][\A t \in Threads :
          (/\ pc[t] = "rt_expect"
           /\ "TIMEOUT" \in ExpectOutcomes(IsPrompt)
           /\ pc'[t] # "rt_expect") =>
             /\ last'.n = call[t].n
             /\ last'.res.msg = MsgTimeout
             /\ ~last'.res.success
             /\ UNCHANGED <<is_running, child, alive>>
             /\ pty'.inq = pty.inq
             /\ pty'.closed = pty.closed]_vars

C5_Witness ==
    /\ last.n > 0
    /\ last.res.msg = MsgTimeout
    /\ is_running
    /\ ChildAlive
    /\ ~pty.closed

\* C6: every return of stop has success true, and in the state it returns
\* to is_running is false and current_project is None.
C6_StopClears ==
    [][\A t \in Threads :
          ((StopExit(t) \/ StopWait(t)) /\ pc'[t] = "idle") =>
             /\ last'.res.success
             /\ ~is_running'
             /\ current_project' = None]_vars

\* C7: start on a session that is Running returns success and spawns
\* nothing: the child handle, the child, its stream, the flags and the
\* statistics are unchanged, and so is the number of processes spawned.
C7_StartIdempotent ==
    [][\A t \in Threads :
          (is_running /\ StartSpawn(t)) =>
             /\ last'.res.msg = MsgAlreadyRunning
             /\ last'.res.success
             /\ pc'[t] = "idle"
             /\ UNCHANGED <<sessionVars, procVars, nspawn>>]_vars

C7_Witness ==
    /\ last.res.msg = MsgAlreadyRunning
    /\ last.res.success
    /\ is_running
    /\ nspawn = 1

\* C8: the number of errors never exceeds the number of commands run.
C8_ErrorsBounded == stats.errors <= stats.commands_run

\* C10: a snapshot of get_stats with commands_run > 0 has an average, equal
\* to its total_command_time_ms divided by its commands_run; a snapshot
\* with commands_run = 0 has none.
C10_AverageOfSnapshot ==
    last.snap.valid =>
       /\ last.snap.commands_run > 0 =>
             /\ last.snap.has_avg
             /\ last.snap.avg_num * last.snap.commands_run =
                   last.snap.total_command_time_ms * last.snap.avg_den
       /\ last.snap.commands_run = 0 => ~last.snap.has_avg

MostRecent(s, n) == [i \in 1..n |-> s[Len(s) - n + i]]

\* C9: the history never holds more than HISTORY_MAX entries; between two
\* commands it holds the commands executed so far, all of them while they
\* are at most HISTORY_MAX and the HISTORY_MAX most recent ones, in the
\* order of execution, once they are more.
C9_HistoryBound ==
    /\ Len(stats.command_history) <= HISTORY_MAX
    /\ (\A t \in Threads : pc[t] # "rt_record") =>
          IF Len(executed) > HISTORY_MAX
          THEN /\ Len(stats.command_history) = HISTORY_MAX
               /\ stats.command_history = MostRecent(executed, HISTORY_MAX)
          ELSE stats.command_history = executed

C9_Witness ==
    /\ stats.commands_run > HISTORY_MAX
    /\ Len(executed) > HISTORY_MAX
    /\ Len(stats.command_history) = HISTORY_MAX
    /\ \A t \in Threads : pc[t] = "idle"

\* A line that, once the whitespace around it is gone, starts with
\* "ERROR:", optional whitespace and "[".
Anchored(line) ==
    \E a, b \in 1..Len(line) :
       /\ a < b
       /\ line[a] = "ERROR:"
       /\ line[b] = "["
       /\ \A i \in 1..(a - 1) : line[i] = Blank
       /\ \A i \in (a + 1)..(b - 1) : line[i] = Blank

HasAnchored(t) == \E i \in 1..Len(t) : Anchored(t[i])

\* C11: the classifier sets the tool-level flag exactly for a text with a
\* line that starts, after trimming, with "ERROR:", optional whitespace and
\* "["; a text without such a line and without a TCL error is no failure,
\* whatever "ERROR" or "ERROR:" it holds elsewhere.
C11_AnchoredErrorOnly ==
    classification.done =>
       /\ classification.is_vivado_error <=> HasAnchored(text)
       /\ (~HasAnchored(text) /\ ~classification.is_tcl_error) =>
             ~classification.is_actual_failure

C11_Witness ==
    /\ classification.done
    /\ \E i \in 1..Len(text) : \E j \in 1..Len(text[i]) :
          text[i][j] \in {"ERROR:", "ERROR"}
    /\ ~HasAnchored(text)
    /\ ~classification.is_actual_failure

\* A line that, once the whitespace before it is gone, starts with a TCL
\* error pattern, in any case of letters.
StartsTcl(line) ==
    \E a \in 1..Len(line) :
       /\ line[a] \in {"invalid command name", "Invalid Command Name",
                       "wrong # args:"}
       /\ \A i \in 1..(a - 1) : line[i] = Blank

\* C12: the TCL flag is set exactly when one of the first five lines of the
\* text (split as the classifier splits it) starts with a TCL error
\* pattern, and then the text is a failure; such a line after the fifth
\* one alone does not set the flag.
C12_TclWindow ==
    classification.done =>
       LET lines == SplitLines(text)
           early == \E i \in 1..Len(lines) : i <= 5 /\ StartsTcl(lines[i])
       IN  /\ early => (/\ classification.is_tcl_error
                        /\ classification.is_actual_failure)
           /\ ~early => ~classification.is_tcl_error

C12_Witness ==
    /\ classification.done
    /\ Len(SplitLines(text)) > 5
    /\ StartsTcl(SplitLines(text)[6])
    /\ \A i \in 1..5 : ~StartsTcl(SplitLines(text)[i])
    /\ ~classification.is_tcl_error

MarkerLine(line) == \E j \in 1..Len(line) : line[j] \in ReportIndicators

NoMarker(line) == ~MarkerLine(line)

WithoutMarkers(t) == SelectSeq(t, NoMarker)

C14_EmptyIsNoFailure ==
    /\ ~classify_output_errors(<<>>).is_actual_failure
    /\ ~classify_output_errors(<< <<>> >>).is_actual_failure
    /\ (last.n > 0 /\ last.res.msg = "" /\ last.res.lines = <<>>) =>
          (last.res.success /\ last.res.return_value = "0")

C14_Witness ==
    /\ last.n > 0
    /\ last.res.msg = ""
    /\ last.res.lines = <<>>
    /\ last.res.success

\* C15: when ensure_healthy ends, it has either found the session healthy
\* and returned the "Session healthy" result having called neither stop nor
\* start, or called stop once and then start once and returned what start
\* returned; it does not end with an exception.
EnsureEnds ==
    \/ EnsureBegin(Caller) /\ pc'[Caller] = "idle"
    \/ EnsureCheck(Caller) /\ pc'[Caller] = "idle"
    \/ EnsureDone(Caller)

HealthyOutcome ==
    /\ hlog' = <<"is_healthy">>
    /\ last'.res.command = "health_check"
    /\ last'.res.success
    /\ nspawn' = nspawn

RestartOutcome ==
    /\ hlog' = <<"is_healthy", "stop", "start">>
    /\ last'.res.command = "start"

C15_StopThenStart ==
    [][EnsureEnds =>
          /\ last'.res.return_value # "raised"
          /\ HealthyOutcome \/ RestartOutcome]_vars

\* C16: is_healthy never ends with an exception: whatever happens on the
\* channel, the caller gets a bool.
C16_HealthNeverRaises ==
    last.res.command = "is_healthy" => last.res.return_value # "raised"

\* C17: when start has failed after the child was spawned, the stop that
\* follows ends that child.
StartFailedAfterSpawn ==
    /\ last.res.command = "start"
    /\ ~last.res.success
    /\ ~is_running
    /\ child # 0

C17_StopEndsChild ==
    [][(StartFailedAfterSpawn /\ StopExit(Caller)) => child \notin alive']_vars

\* C18: a start that takes the session from not Running to Running leaves
\* the counters at zero, the history empty and session_start fresh.
C18_StartResetsStats ==
    [][(StartPrompt(Caller) /\ ~is_running /\ is_running') =>
          stats' = [InitStats EXCEPT !.session_start = now]]_vars

\* C19: get_session makes an instance only when there is none and otherwise
\* gives the one there is, untouched; an instance it makes is a new one, not
\* Running, with zeroed statistics and no project; when reset_session ends
\* there is no instance, and the one there was is not Running, its child
\* ended when it was Running.
ResetEnds ==
    (ResetBegin(Caller) \/ ResetDrop(Caller)) /\ pc'[Caller] = "idle"

C19_Singleton ==
    [][/\ get_session(Caller) =>
             /\ session' # 0
             /\ session # 0 => (session' = session /\ UNCHANGED sessionVars)
             /\ session = 0 =>
                   /\ session' \notin 1..ninst
                   /\ ~is_running'
                   /\ stats' = InitStats
                   /\ current_project' = None
       /\ ResetEnds =>
             /\ session' = 0
             /\ ~is_running'
             /\ pc[Caller] = "rs_drop" => child \notin alive']_vars

C19_Witness ==
    /\ session = 2
    /\ last.res.command = "get_session"
    /\ ncmds = 1
    /\ nspawn = 1
    /\ child = 0
    /\ stats = InitStats

\* C20: at most one spawned child is alive.
C20_OneChild == Cardinality(alive) <= 1

\* C21: stop writes to the child and closes it, and get_stats reads the
\* statistics, only while no other thread is inside the locked section of
\* run_tcl.
C21_OnlyUnderLock ==
    [][\A t \in Threads :
          (\/ StopExit(t) /\ is_running
           \/ StopWait(t)
           \/ GetStatsCopy(t)) =>
             \A u \in Threads \ {t} : ~InCritical(u)]_vars

\* C22: a dictionary that get_stats has returned stays as it is, its
\* command history included, whatever run_tcl does afterwards.
Fields(snap) == [snap EXCEPT !.live = FALSE]

C22_SnapshotIsCopy ==
    [][(held.valid /\ ~GetStatsKeep(Caller)) =>
          Fields(held') = Fields(held)]_vars

\* C23: every run_tcl call that has passed its check returns, and the lock
\* is free whenever no thread is between taking it and returning.
InRunTcl(t) == pc[t] \in {"rt_lock", "rt_expect", "rt_record"}

C23_NoDeadlock ==
    /\ \A t \in Threads : InRunTcl(t) ~> ~InRunTcl(t)
    /\ []((\A t \in Threads : ~InCritical(t)) => lock = NoThread)

C23_Witness ==
    \E t, u \in Threads :
       /\ pc[t] = "rt_lock"
       /\ pc[u] = "rt_expect"
       /\ lock = u
       /\ "TIMEOUT" \in ExpectOutcomes(IsPrompt)

\* C24: when the wait of a run_tcl call ends with the prompt, the child has
\* answered the command of that call, and every line of the output belongs
\* to that command.
Pending(n) == \E i \in 1..Len(pty.inq) : pty.inq[i].id = n

C24_NoLeftovers ==
    [][(pc[Caller] = "rt_expect" /\ pc'[Caller] = "rt_record") =>
          /\ ~Pending(call[Caller].n)
          /\ \A i \in 1..Len(call'[Caller].res.lines) :
                call'[Caller].res.lines[i].id = call[Caller].n]_vars

(***************************************************************************)
(* C25: when the text the child wrote for a command, before its prompt,    *)
(* has a line starting with "ERROR: [", run_tcl returns success=false and  *)
(* that line is in its output, whether or not the terminal sent the        *)
(* command back.                                                           *)
(***************************************************************************)
ErrorLineOf(n, lines) ==
    {i \in 1..Len(lines) : lines[i].k = "err" /\ lines[i].id = n}

C25_ErrorLineFails ==
    [][(/\ pc[Caller] = "rt_expect"
        /\ pc'[Caller] = "rt_record"
        /\ ErrorLineOf(call[Caller].n, Before(IsPrompt)) # {}) =>
          /\ ~call'[Caller].res.success
          /\ ErrorLineOf(call[Caller].n, call'[Caller].res.lines) # {}]_vars

(***************************************************************************)
(* C26: for any captured text and command the framing gives exactly the    *)
(* trimmed lines after the first line that contains the trimmed command,   *)
(* in their order, without the empty lines and the lines starting with the *)
(* prompt marker; that line and every line before it are discarded.  The   *)
(* carriage returns are taken out of the text before anything else.        *)
(***************************************************************************)
Kept(line) == line # <<>> /\ Head(line) # PromptMarker

Following(lines, cmd) ==
    LET i == FirstIdx([j \in 1..Len(lines) |-> IsIn(cmd, lines[j])], 1)
    IN  IF i = 0 THEN <<>>
        ELSE SelectSeq(SubSeq(lines, i + 1, Len(lines)), Kept)

C26_Framing ==
    framed.done =>
       framed.output =
          Following([j \in 1..Len(text) |-> Strip(SelectSeq(text[j], NotCR))],
                    Strip(framed.command))

\* A text with lines before the one holding the command, and after it a
\* line that is dropped and a line that had a carriage return inside.
C26_Witness ==
    /\ framed.done
    /\ framed.command = <<Blank, "a", "b", Blank>>
    /\ Len(text) = MaxRawLines
    /\ ~IsIn(<<"a", "b">>, SelectSeq(text[1], NotCR))
    /\ IsIn(<<"a", "b">>, SelectSeq(text[2], NotCR))
    /\ framed.output = << <<"x", "y">> >>

\* The claim as it is worded: the lines are the lines of the captured text
\* with the whitespace at their ends taken off.
RECURSIVE TrimLeft(_)
TrimLeft(line) ==
    IF line # <<>> /\ Head(line) \in {Blank, CR}
    THEN TrimLeft(Tail(line))
    ELSE line

RECURSIVE TrimRight(_)
TrimRight(line) ==
    IF line # <<>> /\ line[Len(line)] \in {Blank, CR}
    THEN TrimRight(SubSeq(line, 1, Len(line) - 1))
    ELSE line

C26_TrimmedLinesOnly ==
    framed.done =>
       framed.output =
          Following([j \in 1..Len(text) |-> TrimRight(TrimLeft(text[j]))],
                    Strip(framed.command))

(***************************************************************************)
(* C27: in every dictionary get_stats makes, also while another caller is  *)
(* inside run_tcl, the history has min(commands_run, 100) entries and its  *)
(* last entry is the one of the command counted last.                      *)
(***************************************************************************)
Consistent(snap) ==
    /\ Len(snap.command_history) =
          (IF snap.commands_run < HISTORY_MAX THEN snap.commands_run
           ELSE HISTORY_MAX)
    /\ snap.commands_run > 0 =>
          snap.command_history[Len(snap.command_history)] =
             executed[Len(executed)]

C27_CountsMatchHistory ==
    [][\A t \in Threads : GetStatsCopy(t) => Consistent(call'[t].snap)]_vars

(***************************************************************************)
(* C28: a run_tcl call that found the session running and goes on after    *)
(* another caller's stop() has returned, returns a failure and does not    *)
(* execute sendline(command).                                              *)
(***************************************************************************)
C28_NoWriteAfterStop ==
    [][\A t \in Threads :
          (/\ pc[t] = "rt_lock"
           /\ pc'[t] # "rt_lock"
           /\ ~is_running
           /\ last.res.msg = MsgStopped) =>
             /\ pc'[t] = "idle"
             /\ last'.n = call[t].n
             /\ ~last'.res.success]_vars

(***************************************************************************)
(* C29: once the child of a running session has exited, a run_tcl call     *)
(* returns success=false, and an ensure_healthy call goes through the      *)
(* health check, which finds the child dead, to stop and start.            *)
(***************************************************************************)
ChildGone == is_running /\ child # 0 /\ child \notin alive

DeadChildFails ==
    (/\ pc[Caller] = "rt_expect"
     /\ call[Caller].n \notin Range(wlog)
     /\ pc'[Caller] # "rt_expect") =>
       /\ pc'[Caller] = "idle"
       /\ ~last'.res.success

DeadChildChecked ==
    (EnsureBegin(Caller) /\ ChildGone) => pc'[Caller] = "ih_marker"

C29_DeadChildRecovered == [][DeadChildFails /\ DeadChildChecked]_vars

(***************************************************************************)
(* C30: start() does not return success=true for a session whose child has *)
(* exited: a start() called when the child the session refers to is dead   *)
(* either spawns a new one or reports a failure.                           *)
(***************************************************************************)
C30_NoSuccessOnDeadChild ==
    [][\A t \in Threads :
          (StartSpawn(t) /\ child # 0 /\ child \notin alive) =>
             ~(pc'[t] = "idle" /\ last'.res.success)]_vars

(***************************************************************************)
(* C31: a start() that finds another caller inside start() spawns no       *)
(* second process, and every process alive is the one the session's child  *)
(* handle refers to.                                                       *)
(***************************************************************************)
InStart(t) == pc[t] \in {"st_banner", "st_prompt"}

C31_OneSpawn ==
    [][\A t \in Threads :
          (StartSpawn(t) /\ \E u \in Threads \ {t} : InStart(u)) =>
             /\ nspawn' = nspawn
             /\ alive' \subseteq {child'}]_vars

(***************************************************************************)
(* C32: is_running goes from false to true only in the step of start()     *)
(* that has seen the prompt after the banner, and from true to false only  *)
(* in a step of stop(), called directly, by ensure_healthy or by           *)
(* reset_session.                                                          *)
(***************************************************************************)
C32_LifecycleOnly ==
    [][/\ (~is_running /\ is_running') =>
             \E t \in Threads : pc[t] = "st_prompt" /\ StartPrompt(t)
       /\ (is_running /\ ~is_running') =>
             \E t \in Threads :
                StopExit(t) \/ StopWait(t) \/ EnsureCheck(t)
                   \/ ResetBegin(t)]_vars

(***************************************************************************)
(* C33: the open_project tool sets current_project to the given path when  *)
(* the result of its run_tcl has success true and leaves it as it was      *)
(* otherwise; the close_project tool leaves it None; and nothing else      *)
(* gives the session a project.                                            *)
(***************************************************************************)
C33_ProjectFollowsTools ==
    [][/\ ToolOpenDone(ServerThread) =>
             current_project' = (IF call[ServerThread].res.success
                                 THEN call[ServerThread].path
                                 ELSE current_project)
       /\ ToolCloseDone(ServerThread) => current_project' = None
       /\ (current_project' # current_project /\ current_project' # None) =>
             /\ ToolOpenDone(ServerThread)
             /\ call[ServerThread].res.command = "open_project"
             /\ call[ServerThread].res.success]_vars

\* The open_project tool has returned after a run_tcl that failed, and the
\* session has no project.
C33_Witness ==
    /\ pc[ServerThread] = "idle"
    /\ last.res.command = "open_project"
    /\ ~last.res.success
    /\ last.res.msg = ""
    /\ current_project = None
    /\ is_running

(***************************************************************************)
(* C34: a session that is not Running has no current project.              *)
(***************************************************************************)
C34_ProjectOnlyWhenRunning == current_project # None => is_running

(***************************************************************************)
(* C35: a tool that needs the session, called while the session is not     *)
(* Running, returns the error response with success false, calls no        *)
(* run_tcl and changes nothing of the session.                             *)
(***************************************************************************)
C35_ToolsNeedSession ==
    [][(/\ ~is_running
        /\ \/ \E p \in Projects : OpenProject(ServerThread, p)
           \/ CloseProject(ServerThread)) =>
          /\ pc'[ServerThread] = "idle"
          /\ last'.res.msg = MsgToolNotRunning
          /\ ~last'.res.success
          /\ UNCHANGED <<sessionVars, procVars, logVars>>]_vars

\* A tool has been refused on a session that was started and then stopped.
C35_Witness ==
    /\ last.res.msg = MsgToolNotRunning
    /\ ~last.res.success
    /\ ~is_running
    /\ child # 0
    /\ pc[ServerThread] = "idle"

(***************************************************************************)
(* C36: the check_session_health tool returns with action "restarted"      *)
(* only when stop and start were called during the call; up to the step in *)
(* which it returns with action "none" nothing is stopped and nothing is   *)
(* spawned.                                                                *)
(***************************************************************************)
ReturnsRestarted ==
    \/ EnsureCheck(Caller) /\ pc'[Caller] = "idle"
    \/ EnsureDone(Caller)

ReturnsNone ==
    /\ pc[Caller] \in {"idle", "ht_recover", "ht_report"}
    /\ last'.res = ToolHealthResult("none")
    /\ last' # last

BeforeRecovery ==
    \/ pc[Caller] \in {"ht_recover", "ht_report"}
    \/ pc[Caller] \in {"ih_marker", "ih_prompt"}
          /\ call[Caller].ret \in {"ht_recover", "ht_report"}

C36_RestartedIsRestart ==
    [][/\ ReturnsRestarted => hlog' = <<"is_healthy", "stop", "start">>
       /\ (BeforeRecovery \/ ReturnsNone) =>
             /\ nspawn' = nspawn
             /\ is_running' = is_running
             /\ pty'.closed = pty.closed]_vars

(***************************************************************************)
(* C37: every CommandResult that start, stop, run_tcl and ensure_healthy   *)
(* produce has return_value "0" when success is true and "1" when it is    *)
(* false.                                                                  *)
(***************************************************************************)
IsCommandResult(res) ==
    /\ res.command \notin {None, "is_healthy", "get_session",
                           "reset_session", "check_session_health", "tool"}
    /\ res.return_value # "raised"

ValueMatchesSuccess(res) ==
    IsCommandResult(res) =>
       res.return_value = (IF res.success THEN "0" ELSE "1")

C37_ReturnValueIsSuccess ==
    /\ ValueMatchesSuccess(last.res)
    /\ \A t \in Threads : ValueMatchesSuccess(call[t].res)

\* ensure_healthy has returned the failure of the start it called.
C37_Witness ==
    /\ hlog = <<"is_healthy", "stop", "start">>
    /\ last.res.command = "start"
    /\ ~last.res.success
    /\ last.res.return_value = "1"
    /\ pc[Caller] = "idle"

(***************************************************************************)
(* C38: the timeout of a run_tcl call is its override when it has one, 0   *)
(* included, and self.timeout otherwise, and the message of a call that    *)
(* timed out names that timeout.                                           *)
(***************************************************************************)
C38_MessageNamesTimeout ==
    [][(/\ pc[Caller] = "rt_expect"
        /\ pc'[Caller] = "idle"
        /\ "TIMEOUT" \in ExpectOutcomes(IsPrompt)) =>
          last'.res.msg =
             TimeoutText(EffectiveTimeout(call[Caller].timeout_override))]_vars

=============================================================================
